---- MODULE Spec2Model ----
(***************************************************************************)
(* A model of yaml-sort (src/yaml-sort.js): the command line tool that     *)
(* reads YAML inputs, sorts their mapping keys with js-yaml and writes,    *)
(* prints or checks the result.                                            *)
(*                                                                         *)
(* Part 1 models text and the two js-yaml calls the script makes           *)
(* (yaml.loadAll, yaml.dump) on a line-structured subset of YAML.          *)
(* Part 2 models one run of the script as a state machine: the             *)
(* synchronous forEach over argv.input, the asynchronous fs.writeFile      *)
(* requests it leaves behind, and the way the process ends.                *)
(***************************************************************************)
EXTENDS Integers, Sequences, FiniteSets, TLC

(***************************************************************************)
(* Part 1.  Text.                                                          *)
(*                                                                         *)
(* A text is a sequence of lines, each line carrying its own line break.   *)
(* A line is a record [t, ind, k, v]:                                      *)
(*   t = "mark"     the document start marker        ---                   *)
(*   t = "blank"    an empty line                                          *)
(*   t = "comment"  a comment line                   # ...                 *)
(*   t = "entry"    a mapping entry at indentation ind with key k; v is    *)
(*                  the surface form of its value:                         *)
(*                    "plain"  k: x      "single" k: 'x'                   *)
(*                    "double" k: "x"    "null"   k: null                  *)
(*                    "open"   k:        (a nested mapping may follow)     *)
(*   t = "null"     the scalar document              null                  *)
(*   t = "bad"      an unterminated quoted scalar    k: 'x                 *)
(*   t = "junk"     a run of characters that is one plain scalar, ended    *)
(*                  by a line break; "junkraw" the same run with no line   *)
(*                  break; "nul" a run of characters holding NUL           *)
(***************************************************************************)
Ln(t, ind, k, v) == [t |-> t, ind |-> ind, k |-> k, v |-> v]

Mark    == Ln("mark", 0, "", "")
Blank   == Ln("blank", 0, "", "")
Comment == Ln("comment", 0, "", "")
NullLn  == Ln("null", 0, "", "")
BadLn   == Ln("bad", 0, "", "")
JunkLn  == Ln("junk", 0, "", "")
JunkRaw == Ln("junkraw", 0, "", "")
NulLn   == Ln("nul", 0, "", "")
Entry(ind, k, v) == Ln("entry", ind, k, v)

\* Code unit order of the keys, as Array.prototype.sort compares them.
KeyRank(k) == CASE k = "a" -> 1 [] k = "b" -> 2 [] k = "c" -> 3 [] OTHER -> 4

\* A parsed value: a string scalar, null, a junk string scalar, or a mapping
\* whose pairs are kept in source order (JavaScript objects keep insertion order).
Val(kind, pairs) == [kind |-> kind, pairs |-> pairs]
StrVal  == Val("str", <<>>)
NullVal == Val("null", <<>>)
JunkVal == Val("junk", <<>>)

Failed == [ok |-> FALSE, val |-> NullVal]
Parsed(v) == [ok |-> TRUE, val |-> v]

RECURSIVE SelectLines(_, _)
\* the lines of s, in order, that are neither blank nor comments
SelectLines(s, i) ==
    IF i > Len(s) THEN <<>>
    ELSE IF s[i].t \in {"blank", "comment"} THEN SelectLines(s, i + 1)
         ELSE <<s[i]>> \o SelectLines(s, i + 1)

Strip(s) == SelectLines(s, 1)

\* the index of the last line of the run of lines after i that are indented
\* deeper than base
RECURSIVE RunEnd(_, _, _)
RunEnd(s, i, base) ==
    IF i + 1 <= Len(s) /\ s[i + 1].ind > base THEN RunEnd(s, i + 1, base) ELSE i

HasKey(pairs, k) == \E j \in 1..Len(pairs) : pairs[j].k = k

\* A flat run of entries, all at indentation ind: the nested mapping of an
\* open entry.  Fails on a change of indentation and on a duplicated key.
RECURSIVE ParseFlat(_, _, _, _)
ParseFlat(s, i, ind, acc) ==
    IF i > Len(s) THEN Parsed(Val("map", acc))
    ELSE IF s[i].t # "entry" \/ s[i].ind # ind \/ HasKey(acc, s[i].k) THEN Failed
    ELSE ParseFlat(s, i + 1, ind,
             Append(acc, [k |-> s[i].k,
                          val |-> IF s[i].v \in {"null", "open"} THEN NullVal ELSE StrVal]))

\* A block mapping at indentation base, from line i on.
RECURSIVE ParseMap(_, _, _, _)
ParseMap(s, i, base, acc) ==
    IF i > Len(s) THEN Parsed(Val("map", acc))
    ELSE IF s[i].t # "entry" \/ s[i].ind # base \/ HasKey(acc, s[i].k) THEN Failed
    ELSE LET e == RunEnd(s, i, base)
             kids == SubSeq(s, i + 1, e)
             sub == IF kids = <<>> THEN Parsed(NullVal)
                    ELSE ParseFlat(kids, 1, kids[1].ind, <<>>)
         IN  IF s[i].v = "open"
             THEN IF sub.ok
                  THEN ParseMap(s, e + 1, base, Append(acc, [k |-> s[i].k, val |-> sub.val]))
                  ELSE Failed
             ELSE IF kids # <<>> THEN Failed
             ELSE ParseMap(s, i + 1, base,
                      Append(acc, [k |-> s[i].k,
                                   val |-> IF s[i].v = "null" THEN NullVal ELSE StrVal]))

\* One document: the lines between two markers.
readDocument(lines) ==
    LET s == Strip(lines)
    IN  IF s = <<>> THEN Parsed(NullVal)
        ELSE IF \E j \in 1..Len(s) : s[j].t \in {"bad", "nul", "mark"} THEN Failed
        ELSE IF s = <<NullLn>> THEN Parsed(NullVal)
        ELSE IF s = <<JunkLn>> \/ s = <<JunkRaw>> THEN Parsed(JunkVal)
        ELSE ParseMap(s, 1, s[1].ind, <<>>)

\* the index of the first marker of s at or after i, Len(s) + 1 when there is none
RECURSIVE NextMark(_, _)
NextMark(s, i) ==
    IF i > Len(s) \/ s[i].t = "mark" THEN i ELSE NextMark(s, i + 1)

\* The documents from the marker at line i on: each marker starts one.
RECURSIVE ReadFromMark(_, _)
ReadFromMark(s, i) ==
    IF i > Len(s) THEN [ok |-> TRUE, docs |-> <<>>]
    ELSE LET j == NextMark(s, i + 1)
             d == readDocument(SubSeq(s, i + 1, j - 1))
             rest == ReadFromMark(s, j)
         IN  IF d.ok /\ rest.ok
             THEN [ok |-> TRUE, docs |-> <<d.val>> \o rest.docs]
             ELSE [ok |-> FALSE, docs |-> <<>>]

\* yaml.loadAll(content): ok = FALSE when it throws.  Text before the first
\* marker is a document of its own unless it holds only blank lines and
\* comments; a text with no marker at all is one document, and the empty
\* text and the single line break hold none.
loadAll(content) ==
    IF content = <<>> \/ content = <<Blank>> THEN [ok |-> TRUE, docs |-> <<>>]
    ELSE LET j == NextMark(content, 1)
             pre == SubSeq(content, 1, j - 1)
             d == readDocument(pre)
             rest == ReadFromMark(content, j)
         IN  IF ~d.ok \/ ~rest.ok THEN [ok |-> FALSE, docs |-> <<>>]
             ELSE IF j <= Len(content) /\ Strip(pre) = <<>> THEN rest
             ELSE [ok |-> TRUE, docs |-> <<d.val>> \o rest.docs]

\* Object keys in ascending order (sortKeys: true): insertion of p into a
\* sorted sequence, then the sort itself.
RECURSIVE InsertPair(_, _)
InsertPair(p, sorted) ==
    IF sorted = <<>> THEN <<p>>
    ELSE IF KeyRank(p.k) < KeyRank(Head(sorted).k) THEN <<p>> \o sorted
         ELSE <<Head(sorted)>> \o InsertPair(p, Tail(sorted))

RECURSIVE SortPairs(_)
SortPairs(pairs) ==
    IF pairs = <<>> THEN <<>> ELSE InsertPair(Head(pairs), SortPairs(Tail(pairs)))

\* The order in which dump writes the pairs of a mapping.
KeyOrder(pairs, sortKeys) == IF sortKeys THEN SortPairs(pairs) ELSE pairs

\* The surface form dump gives a string value: quoted in quotingType when
\* forceQuotes is set, plain otherwise (x needs no quotes).  Keys are never
\* force-quoted.
ScalarStyle(o) ==
    IF o.forceQuotes = TRUE
    THEN (IF o.quotingType = "\"" THEN "double" ELSE "single")
    ELSE "plain"

\* the lines of a mapping's pairs at indentation ind
RECURSIVE WritePairs(_, _, _)
WritePairs(pairs, ind, o) ==
    IF pairs = <<>> THEN <<>>
    ELSE LET p == Head(pairs)
             here == CASE p.val.kind = "str"  -> <<Entry(ind, p.k, ScalarStyle(o))>>
                       [] p.val.kind = "null" -> <<Entry(ind, p.k, "null")>>
                       [] OTHER -> <<Entry(ind, p.k, "open")>>
                                   \o WritePairs(KeyOrder(p.val.pairs, o.sortKeys),
                                                 ind + o.indent, o)
         IN  here \o WritePairs(Tail(pairs), ind, o)

\* yaml.dump(doc, o): the text of one document, ended by a line break.
dump(doc, o) ==
    CASE doc.kind = "null" -> <<NullLn>>
      [] doc.kind = "junk" -> <<JunkLn>>
      [] OTHER -> WritePairs(KeyOrder(doc.pairs, o.sortKeys), 0, o)

\* The options object the script hands to yaml.dump, from the command line.
DumpOptions(argv) ==
    [sortKeys |-> TRUE,
     indent |-> argv.indent,
     lineWidth |-> argv.lineWidth,
     quotingType |-> IF argv.quotingStyle = "double" THEN "\"" ELSE "'",
     forceQuotes |-> argv.forceQuotes]

\* documents.map(doc => yaml.dump(doc, {...}))
sortedDocuments(documents, argv) ==
    [i \in 1..Len(documents) |-> dump(documents[i], DumpOptions(argv))]

\* String.prototype.trimStart on a text: the leading blank lines go.
RECURSIVE trimStart(_)
trimStart(t) ==
    IF t # <<>> /\ Head(t).t = "blank" THEN trimStart(Tail(t)) ELSE t

startsWith(t, line) == t # <<>> /\ Head(t) = line

\* hasDocumentStart with the trimStart() call left out
hasDocumentStartUntrimmed(content) == startsWith(content, Mark)

hasDocumentStart(content) == startsWith(trimStart(content), Mark)

\* join with sep after every part, the last one too
RECURSIVE joinTrailing(_, _)
joinTrailing(parts, sep) ==
    IF parts = <<>> THEN <<>>
    ELSE parts[1] \o sep \o joinTrailing(Tail(parts), sep)

\* Array.prototype.join: the texts of parts with sep between them.
RECURSIVE join(_, _)
join(parts, sep) ==
    IF parts = <<>> THEN <<>>
    ELSE IF Len(parts) = 1 THEN parts[1]
    ELSE parts[1] \o sep \o join(Tail(parts), sep)

\* The marker the script puts back in front of the output.
Prefix(content) == IF hasDocumentStart(content) THEN <<Mark>> ELSE <<>>

\* What the script computes from content: ok = FALSE when loadAll throws,
\* otherwise the sorted and formatted text.
sortedContent(content, argv) ==
    LET documents == loadAll(content)
    IN  IF ~documents.ok THEN [ok |-> FALSE, text |-> <<>>]
        ELSE [ok |-> TRUE,
              text |-> Prefix(content)
                       \o join(sortedDocuments(documents.docs, argv), <<Mark>>)]

(***************************************************************************)
(* Part 2.  One run of the script.                                         *)
(*                                                                         *)
(* Bytes.  Every character of the modelled texts is 7-bit, so the ascii    *)
(* and the utf8 encodings of a text are the same bytes ("u8"); its utf16le *)
(* encoding ("u16") differs unless the text is empty.  A path that does    *)
(* not exist holds NoFile.                                                 *)
(***************************************************************************)
NoFile == [enc |-> "none", text |-> <<>>]

\* Buffer.from(text, encoding)
Encode(text, encoding) ==
    IF text = <<>> THEN [enc |-> "u8", text |-> <<>>]
    ELSE [enc |-> IF encoding = "utf16le" THEN "u16" ELSE "u8", text |-> text]

\* buffer.toString(encoding): UTF-8 bytes read as UTF-16 are one run of
\* characters with no line break; UTF-16 bytes read bytewise hold NULs.
Decode(bytes, encoding) ==
    IF bytes.text = <<>> THEN <<>>
    ELSE IF encoding = "utf16le"
         THEN (IF bytes.enc = "u16" THEN bytes.text ELSE <<JunkRaw>>)
         ELSE (IF bytes.enc = "u8" THEN bytes.text ELSE <<NulLn>>)

\* fs.writeFile is called with no options: the data is written as utf8.
WriteEncoding == "utf8"

\* process.exit codes
ExitMisuse == 22
ExitFailure == 1
ExitOk == 0
\* option defaults
DefaultIndent == 2
DefaultLineWidth == 80

\* process.stdout.fd; every other destination is a path
StdoutFd == "<stdout>"
Stdin == "-"

VARIABLES
    argv,       \* the parsed command line
    stdinTTY,   \* process.stdin.isTTY
    stdin,      \* the bytes still to be read from standard input
    disk,       \* path -> bytes
    disk0,      \* the disk as the run found it
    stdout,     \* the texts written to standard output, in order
    phase,      \* "main": the script body runs; "loop": the event loop runs
                \* the callbacks; "exited"
    exitCode,   \* the exit code once phase = "exited"
    success,    \* let success
    results,    \* one record per input the forEach has been through
    ops,        \* the fs.writeFile requests of the run, oldest first
    prev,       \* the requests of the write run before this one
    fmt         \* the state of the pipeline when it is run on its own

vars == <<argv, stdinTTY, stdin, disk, disk0, stdout, phase, exitCode, success,
          results, ops, prev, fmt>>

env == <<argv, stdinTTY, disk0, prev, fmt>>

\* The input the forEach is at, and whether it is through.
idx == Len(results) + 1
MoreInputs == idx <= Len(argv.input)
file == argv.input[idx]
isStdin == file = Stdin

\* const output = argv.stdout || (argv.output === '.') || (isStdin && !argv.output)
\*   ? process.stdout.fd : (argv.output ? argv.output : file)
output ==
    IF argv.stdout \/ argv.output = "." \/ (isStdin /\ argv.output = "")
    THEN StdoutFd
    ELSE (IF argv.output # "" THEN argv.output ELSE file)

\* fs.readFileSync(isStdin ? process.stdin.fd : file, argv.encoding):
\* ok = FALSE when it throws (the path does not exist).
readFileSync ==
    LET bytes == IF isStdin THEN stdin ELSE disk[file]
    IN  IF bytes = NoFile THEN [ok |-> FALSE, text |-> <<>>]
        ELSE [ok |-> TRUE, text |-> Decode(bytes, argv.encoding)]

\* Reading standard input to its end leaves nothing to read.
StdinAfterRead == IF isStdin THEN Encode(<<>>, argv.encoding) ELSE stdin

content == readFileSync.text
sorted == sortedContent(content, argv)

\* The body of the try block gets to the end.
BodyRuns == readFileSync.ok /\ sorted.ok

Result(kind) ==
    [file |-> file, kind |-> kind, content |-> content,
     sorted |-> IF kind \in {"readerr", "parseerr"} THEN <<>> ELSE sorted.text]

\* if (isStdin && process.stdin.isTTY) { ...; process.exit(22) }
Misuse ==
    /\ phase = "main" /\ MoreInputs
    /\ isStdin /\ stdinTTY
    /\ phase' = "exited"
    /\ exitCode' = ExitMisuse
    /\ UNCHANGED <<env, stdin, disk, stdout, success, results, ops>>

\* catch (error) { success = false; console.error(error) }
Caught ==
    /\ phase = "main" /\ MoreInputs
    /\ ~(isStdin /\ stdinTTY)
    /\ ~BodyRuns
    /\ success' = FALSE
    /\ results' = Append(results, Result(IF readFileSync.ok THEN "parseerr" ELSE "readerr"))
    /\ stdin' = StdinAfterRead
    /\ UNCHANGED <<env, disk, stdout, phase, exitCode, ops>>

\* The value of success after the comparison of check mode.
CheckedSuccess(isSame, s) == IF ~isSame THEN FALSE ELSE s

\* the check branch tested on an option name yargs never sets (argv.chek)
CheckOptionMisspelt == FALSE

\* Whether the body takes the check branch.
TakesCheckBranch == argv.check

\* if (argv.check) { if (sortedContent !== content.toString()) success = false }
Check ==
    /\ phase = "main" /\ MoreInputs
    /\ ~(isStdin /\ stdinTTY)
    /\ BodyRuns
    /\ TakesCheckBranch
    /\ success' = CheckedSuccess(sorted.text = content, success)
    /\ results' = Append(results, Result("checked"))
    /\ stdin' = StdinAfterRead
    /\ UNCHANGED <<env, disk, stdout, phase, exitCode, ops>>

\* A request as fs.writeFile leaves it: for a path, an open in the thread
\* pool; for a file descriptor, the write itself.
Request(dest, data) ==
    [input |-> idx, dest |-> dest, data |-> data,
     st |-> IF dest = StdoutFd THEN "write" ELSE "open"]

\* else { fs.writeFile(output, sortedContent, (error) => {...}) }
Write ==
    /\ phase = "main" /\ MoreInputs
    /\ ~(isStdin /\ stdinTTY)
    /\ BodyRuns
    /\ ~TakesCheckBranch
    /\ ops' = Append(ops, Request(output, sorted.text))
    /\ results' = Append(results, Result("write"))
    /\ stdin' = StdinAfterRead
    /\ UNCHANGED <<env, disk, stdout, phase, exitCode, success>>

\* The end of the script: if (!success) { process.exit(1) }; otherwise the
\* event loop takes over.
MainEnd ==
    /\ phase = "main" /\ ~MoreInputs
    /\ IF ~success
       THEN phase' = "exited" /\ exitCode' = ExitFailure
       ELSE phase' = "loop" /\ UNCHANGED exitCode
    /\ UNCHANGED <<env, stdin, disk, stdout, success, results, ops>>

Alive == phase \in {"main", "loop"}

\* The thread pool opens the destination with flag 'w' (created or cut to
\* length 0), or the open fails.  It runs beside the script body.
PoolOpen(i) ==
    /\ Alive /\ ops[i].st = "open"
    /\ \E failed \in BOOLEAN :
        IF failed
        THEN ops' = [ops EXCEPT ![i].st = "openerr"] /\ UNCHANGED disk
        ELSE /\ ops' = [ops EXCEPT ![i].st = "opened"]
             /\ disk' = [disk EXCEPT ![ops[i].dest] = Encode(<<>>, WriteEncoding)]
    /\ UNCHANGED <<env, stdin, stdout, phase, exitCode, success, results>>

\* the callback written as success = !error
CallbackSuccessAssigned(error, s) == ~error

\* The value of success after the callback (error) => { if (error) success = false }
CallbackSuccess(error, s) == IF error THEN FALSE ELSE s

\* The event loop, once the script body is through, gets the open's result:
\* on an error the user callback runs with it, otherwise the write is handed
\* to the thread pool.
OpenDone(i) ==
    /\ phase = "loop" /\ ops[i].st \in {"opened", "openerr"}
    /\ ops' = [ops EXCEPT ![i].st = IF ops[i].st = "opened" THEN "write" ELSE "failed"]
    /\ success' = CallbackSuccess(ops[i].st = "openerr", success)
    /\ UNCHANGED <<env, stdin, disk, stdout, phase, exitCode, results>>

\* The thread pool writes the data, or the write fails.
PoolWrite(i) ==
    /\ Alive /\ ops[i].st = "write"
    /\ \E failed \in BOOLEAN :
        IF failed
        THEN ops' = [ops EXCEPT ![i].st = "writeerr"] /\ UNCHANGED <<disk, stdout>>
        ELSE /\ ops' = [ops EXCEPT ![i].st = "written"]
             /\ IF ops[i].dest = StdoutFd
                THEN stdout' = Append(stdout, ops[i].data) /\ UNCHANGED disk
                ELSE /\ disk' = [disk EXCEPT ![ops[i].dest] = Encode(ops[i].data, WriteEncoding)]
                     /\ UNCHANGED stdout
    /\ UNCHANGED <<env, stdin, phase, exitCode, success, results>>

\* The event loop runs the user callback of a finished write.
WriteDone(i) ==
    /\ phase = "loop" /\ ops[i].st \in {"written", "writeerr"}
    /\ ops' = [ops EXCEPT ![i].st = IF ops[i].st = "written" THEN "done" ELSE "failed"]
    /\ success' = CallbackSuccess(ops[i].st = "writeerr", success)
    /\ UNCHANGED <<env, stdin, disk, stdout, phase, exitCode, results>>

\* With nothing left to wait for the process ends; nothing has set an exit
\* code, so it is 0.
LoopEnd ==
    /\ phase = "loop"
    /\ \A i \in 1..Len(ops) : ops[i].st \in {"done", "failed"}
    /\ phase' = "exited"
    /\ exitCode' = ExitOk
    /\ UNCHANGED <<env, stdin, disk, stdout, success, results, ops>>

Next ==
    \/ Misuse
    \/ Caught
    \/ Check
    \/ Write
    \/ MainEnd
    \/ \E i \in 1..Len(ops) : PoolOpen(i)
    \/ \E i \in 1..Len(ops) : OpenDone(i)
    \/ \E i \in 1..Len(ops) : PoolWrite(i)
    \/ \E i \in 1..Len(ops) : WriteDone(i)
    \/ LoopEnd

(***************************************************************************)
(* The runs explored.                                                      *)
(***************************************************************************)
\* the longest input list
MaxInputs == 2
\* the longest text the pipeline is run on by itself
MaxLen == 4

Encodings == {"ascii", "utf8", "utf16le"}
QuotingStyles == {"single", "double"}

\* --output, --stdout and --check as yargs lets them combine: stdout
\* conflicts with output, check with both.
Modes ==
    {[output |-> "", stdout |-> FALSE, check |-> FALSE],
     [output |-> "", stdout |-> TRUE, check |-> FALSE],
     [output |-> ".", stdout |-> FALSE, check |-> FALSE],
     [output |-> "out", stdout |-> FALSE, check |-> FALSE],
     [output |-> "", stdout |-> FALSE, check |-> TRUE]}

Formats ==
    [indent : {DefaultIndent, 4}, lineWidth : {DefaultLineWidth},
     quotingStyle : QuotingStyles, forceQuotes : BOOLEAN]

\* the formats of the runs: the defaults, and all of them changed
RunFormats ==
    {[indent |-> DefaultIndent, lineWidth |-> DefaultLineWidth,
      quotingStyle |-> "single", forceQuotes |-> FALSE],
     [indent |-> 4, lineWidth |-> DefaultLineWidth,
      quotingStyle |-> "double", forceQuotes |-> TRUE]}

Argv(input, mode, format, encoding) ==
    [input |-> input, output |-> mode.output, stdout |-> mode.stdout,
     check |-> mode.check, indent |-> format.indent,
     lineWidth |-> format.lineWidth, quotingStyle |-> format.quotingStyle,
     forceQuotes |-> format.forceQuotes, encoding |-> encoding]

\* The texts the inputs hold.
SortedT   == <<Entry(0, "a", "plain"), Entry(0, "b", "plain")>>
UnsortedT == <<Mark, Entry(0, "b", "plain"), Entry(0, "a", "plain")>>
QuotedT   == <<Entry(0, "a", "double")>>
BadT      == <<BadLn>>

Paths == {"f", "g", "out"}
Names == {Stdin, "f", "g"}

\* What a path named as an input may hold; NoFile: it does not exist.
Holds(path, encoding) ==
    CASE path = "f" -> {Encode(t, encoding) : t \in {SortedT, UnsortedT, QuotedT, BadT}}
                       \cup {NoFile}
      [] path = "g" -> {Encode(t, encoding) : t \in {SortedT, UnsortedT, BadT}}
      [] OTHER -> {NoFile}

InputLists == UNION {[1..n -> Names] : n \in 1..MaxInputs}

Named(input, name) == \E i \in 1..Len(input) : input[i] = name

NoResult == [ok |-> FALSE, text |-> <<>>]
FmtIdle == [step |-> "idle", text |-> <<>>, once |-> NoResult, twice |-> NoResult]

Init ==
    /\ \E input \in InputLists, mode \in Modes, format \in RunFormats,
          encoding \in Encodings :
          /\ argv = Argv(input, mode, format, encoding)
          /\ stdinTTY \in (IF Named(input, Stdin) THEN BOOLEAN ELSE {TRUE})
          /\ stdin \in (IF Named(input, Stdin) /\ ~stdinTTY
                        THEN {Encode(t, encoding) : t \in {UnsortedT, BadT}}
                        ELSE {Encode(<<>>, encoding)})
          /\ disk \in {d \in [Paths -> UNION {Holds(p, encoding) : p \in Paths}] :
                        \A p \in Paths :
                            IF Named(input, p) THEN d[p] \in Holds(p, encoding)
                            ELSE d[p] = NoFile}
    /\ disk0 = disk
    /\ stdout = <<>>
    /\ phase = "main"
    /\ exitCode = ExitOk
    /\ success = TRUE
    /\ results = <<>>
    /\ ops = <<>>
    /\ prev = <<>>
    /\ fmt = FmtIdle

Spec == Init /\ [][Next]_vars

(***************************************************************************)
(* A check run after a write run: once a run that rewrites its input       *)
(* files in place has ended with exit code 0, the same command line with   *)
(* --check is run on the same disk.                                        *)
(***************************************************************************)
Rerun ==
    /\ phase = "exited" /\ exitCode = ExitOk
    /\ ~argv.check /\ argv.output = "" /\ ~argv.stdout
    /\ ~Named(argv.input, Stdin)
    /\ prev = <<>> /\ ops # <<>>
    /\ argv' = [argv EXCEPT !.check = TRUE]
    /\ prev' = ops
    /\ disk0' = disk
    /\ stdout' = <<>>
    /\ phase' = "main"
    /\ exitCode' = ExitOk
    /\ success' = TRUE
    /\ results' = <<>>
    /\ ops' = <<>>
    /\ UNCHANGED <<stdinTTY, stdin, disk, fmt>>

NextRT == Next \/ Rerun

SpecRT == Init /\ [][NextRT]_vars

(***************************************************************************)
(* The pipeline by itself: sortedContent applied to a text, and again to   *)
(* its own result.                                                         *)
(***************************************************************************)
FmtLines ==
    {Mark, Blank, Comment, BadLn,
     Entry(0, "a", "plain"), Entry(0, "a", "double"), Entry(0, "b", "single"),
     Entry(0, "c", "open"), Entry(2, "a", "plain"), Entry(4, "b", "plain")}

FmtTexts == UNION {[1..n -> FmtLines] : n \in 0..MaxLen}

InitFmt ==
    /\ \E format \in Formats, encoding \in {"utf8"} :
          argv = Argv(<<>>, [output |-> "", stdout |-> FALSE, check |-> FALSE],
                      format, encoding)
    /\ fmt \in {[step |-> "input", text |-> t, once |-> NoResult, twice |-> NoResult] :
                   t \in FmtTexts}
    /\ stdinTTY = TRUE
    /\ stdin = Encode(<<>>, "utf8")
    /\ disk = [p \in Paths |-> NoFile]
    /\ disk0 = disk
    /\ stdout = <<>>
    /\ phase = "exited"
    /\ exitCode = ExitOk
    /\ success = TRUE
    /\ results = <<>>
    /\ ops = <<>>
    /\ prev = <<>>

Apply ==
    /\ fmt.step = "input"
    /\ fmt' = [fmt EXCEPT !.step = "once", !.once = sortedContent(fmt.text, argv)]
    /\ UNCHANGED <<argv, stdinTTY, stdin, disk, disk0, stdout, phase, exitCode,
                   success, results, ops, prev>>

ApplyAgain ==
    /\ fmt.step = "once" /\ fmt.once.ok
    /\ fmt' = [fmt EXCEPT !.step = "twice", !.twice = sortedContent(fmt.once.text, argv)]
    /\ UNCHANGED <<argv, stdinTTY, stdin, disk, disk0, stdout, phase, exitCode,
                   success, results, ops, prev>>

NextFmt == Apply \/ ApplyAgain

SpecFmt == InitFmt /\ [][NextFmt]_vars

(***************************************************************************)
(* The claims.                                                             *)
(***************************************************************************)
Exited == phase = "exited"
Ops == {ops[i] : i \in 1..Len(ops)}
Results == {results[i] : i \in 1..Len(results)}

\* the callback of the request was given an error
WriteFailed(op) == op.st = "failed"
\* the data of the request has reached its destination
WriteComplete(op) == op.st \in {"written", "done"}
\* the request is over, well or badly, as far as the thread pool goes
WriteOver(op) == op.st \in {"written", "done", "openerr", "writeerr", "failed"}

\* C1: in write mode, when the write of some input's sorted output has
\* failed (its callback was given the error), the process ends with an
\* exit code other than 0.
C1_WriteFailureExitsNonZero ==
    (Exited /\ \E op \in Ops : WriteFailed(op)) => exitCode # ExitOk

\* C2: in a write-mode run over distinct inputs that is not ended by the
\* misuse exit and in which one input fails to be read or parsed and no
\* write fails, the
\* process does not end before the sorted content of every other input has
\* been written, and it ends with an exit code other than 0.
C2_SiblingsWrittenDespiteFailure ==
    ( /\ Exited /\ ~argv.check /\ exitCode # ExitMisuse
      /\ \A i, j \in 1..Len(argv.input) : argv.input[i] = argv.input[j] => i = j
      /\ \E r \in Results : r.kind \in {"readerr", "parseerr"}
      /\ \A op \in Ops : op.st \notin {"openerr", "writeerr", "failed"} )
    => ( /\ exitCode # ExitOk
         /\ \A r \in Results : r.kind = "write" =>
                \E op \in Ops : op.input \in 1..Len(results)
                                /\ results[op.input] = r /\ WriteComplete(op) )

\* C3: when the run has ended with the misuse exit code 22, no input has
\* been read, no write has been started, and neither the disk nor standard
\* output has changed, wherever '-' stands in the input list.
C3_MisuseBeforeAnyProcessing ==
    (Exited /\ exitCode = ExitMisuse)
    => (results = <<>> /\ ops = <<>> /\ disk = disk0 /\ stdout = <<>>)

\* C4: inputs are processed one at a time: once the input after input i
\* has been read, the write of input i is over.
C4_OneInputAtATime ==
    \A op \in Ops : Len(results) > op.input => WriteOver(op)

\* the result of a check: sortedContent is string-equal to the raw text
IsSorted(r) == r.kind = "checked" /\ r.sorted = r.content
AllCheckedSorted ==
    /\ Len(results) = Len(argv.input)
    /\ \A r \in Results : IsSorted(r)

\* C5: a check-mode run ends with exit code 0 exactly when every input was
\* read and parsed and its sortedContent equals its raw text; and when an
\* input was found to differ, the remaining inputs have still been checked.
C5_CheckExitAndContinue ==
    (Exited /\ argv.check)
    => ( /\ (exitCode = ExitOk <=> AllCheckedSorted)
         /\ (\E r \in Results : r.kind = "checked" /\ ~IsSorted(r))
                => Len(results) = Len(argv.input) )

\* The part of C5 that the code keeps: exit code 0 exactly when all inputs
\* were checked and found sorted.
CheckExitIff ==
    (Exited /\ argv.check) => (exitCode = ExitOk <=> AllCheckedSorted)

\* C6: check mode is read-only: in a check-mode run no write is ever
\* requested, nothing is written to standard output, and the disk stays as
\* the run found it.
C6_CheckModeReadOnly ==
    argv.check => (ops = <<>> /\ stdout = <<>> /\ disk = disk0)

\* C6's case: a check-mode run has ended after going through an input that
\* is not sorted and one that cannot be parsed.
C6_Witness ==
    /\ Exited /\ argv.check
    /\ \E r \in Results : r.kind = "checked" /\ ~IsSorted(r)
    /\ \E r \in Results : r.kind = "parseerr"

BeginsWithMarker(t) ==
    \E i \in 1..Len(t) : t[i] = Mark /\ \A j \in 1..(i - 1) : t[j] = Blank

\* C8: for a valid input, the output begins with '---' exactly when the
\* input, after its leading white space, begins with '---'.
C8_DocumentStartPreserved ==
    (fmt.step = "once" /\ fmt.once.ok)
    => ((fmt.once.text # <<>> /\ Head(fmt.once.text) = Mark) <=> BeginsWithMarker(fmt.text))

\* C8's case: a valid text whose marker comes after white space, and whose
\* output begins with the marker.
C8_Witness ==
    /\ fmt.step = "once" /\ fmt.once.ok
    /\ fmt.text # <<>> /\ Head(fmt.text) = Blank /\ BeginsWithMarker(fmt.text)
    /\ fmt.once.text # <<>> /\ Head(fmt.once.text) = Mark

\* C9: the success flag starts as true and no step of a run takes it from
\* false back to true.
C9_SuccessMonotonic ==
    (success = TRUE) /\ [][(success' = TRUE) => (success = TRUE)]_vars

\* C9's case: success is false after a failure, and a later input has
\* been checked and found sorted.
C9_Witness ==
    /\ ~success
    /\ \E i, j \in 1..Len(results) :
          i < j /\ results[i].kind = "parseerr" /\ IsSorted(results[j])

\* C10: after a write-mode run has rewritten each of its (distinct) input
\* files in place and every write has succeeded, a check-mode run with the
\* same options reads back the text that was written for each file, and
\* ends with exit code 0.
C10_WriteThenCheck ==
    ( /\ Exited /\ argv.check /\ prev # <<>>
      /\ \A i, j \in 1..Len(argv.input) : argv.input[i] = argv.input[j] => i = j
      /\ \A i \in 1..Len(prev) : prev[i].st = "done" )
    => ( /\ exitCode = ExitOk
         /\ \A r \in Results :
                \E i \in 1..Len(prev) : prev[i].dest = r.file /\ r.content = prev[i].data )

\* The part of C10 that the code keeps: the round trip for the encodings
\* whose bytes are those fs.writeFile writes.
WriteThenCheckUtf8 ==
    argv.encoding # "utf16le" => C10_WriteThenCheck

====
